---- MODULE Spec2Model ----
(***************************************************************************)
(* A model of spicer/spicer.py: the angle/coordinate value types           *)
(* (IllumAngles, SurfaceCoords) and the Spicer body-state object with its   *)
(* body-specific subclasses.                                                *)
(*                                                                          *)
(* Numbers.  An angle is kept exactly as a monomial (n/d) * pi^k, written   *)
(* [n, d, k] with d > 0 and n/d in lowest terms, so that the degree/radian  *)
(* conversions of the code are exact and not the identity.                  *)
(* Optional values.  None (or an omitted keyword) is the empty sequence     *)
(* <<>>, a given value x is <<x>>.                                          *)
(* Names (body, target, ref_frame) are sequences of one-character strings.  *)
(***************************************************************************)
EXTENDS Integers, Sequences, FiniteSets, TLC

VARIABLES
    kind,        \* the class of the object: "Spicer", "MarsSpicer", ...
    body,        \* self._body
    ref_frame,   \* self._ref_frame
    target,      \* self.target (class attribute, None on the generic Spicer)
    time,        \* self.time, in time units since the epoch of the model
    spoint_set,  \* self.spoint_set
    spoint,      \* self.spoint: <<>> while the attribute is unassigned
    obs,         \* self.obs: "<undefined>" where the class declares no obs
    instrument,  \* self.instrument
    tau,         \* self.tau, the optical depth of the atmosphere
    tilt,        \* self._tilt, in degrees
    aspect,      \* self._aspect, in degrees
    last,        \* the last call made on the object and how it ended
    val          \* the last value object built (IllumAngles / SurfaceCoords)

vars == <<kind, body, ref_frame, target, time, spoint_set, spoint, obs,
          instrument, tau, tilt, aspect, last, val>>

spicerVars == <<kind, body, ref_frame, target, time, spoint_set, spoint, obs,
                instrument, tau, tilt, aspect, last>>

-----------------------------------------------------------------------------
(* Bounds of the model *)

\* datetime values run over 0..MaxTime; beyond it datetime arithmetic overflows
MaxTime == 2

\* largest step count handed to time_series
MaxSteps == 2

-----------------------------------------------------------------------------
(* Optional values *)

None == <<>>

Some(x) == <<x>>

IsNone(o) == o = <<>>

Get(o) == o[1]

-----------------------------------------------------------------------------
(* Exact numbers (n/d) * pi^k *)

Abs(x) == IF x < 0 THEN -x ELSE x

RECURSIVE GCD(_, _)
GCD(a, b) == IF b = 0 THEN a ELSE GCD(b, a % b)

Q(n, d, k) ==
    IF n = 0 THEN [n |-> 0, d |-> 1, k |-> 0]
    ELSE LET g == GCD(Abs(n), d) IN [n |-> n \div g, d |-> d \div g, k |-> k]

Num(i) == Q(i, 1, 0)

\* (i/j) * pi
PiTimes(i, j) == Q(i, j, 1)

RECURSIVE Pow(_, _)
Pow(b, e) == IF e = 0 THEN 1 ELSE b * Pow(b, e - 1)

\* x < m for an integer m, with pi taken as 355/113 where x carries a power of pi
QLessInt(x, m) ==
    IF x.k >= 0
    THEN x.n * Pow(355, x.k) < m * x.d * Pow(113, x.k)
    ELSE x.n * Pow(113, -x.k) < m * x.d * Pow(355, -x.k)

\* np.degrees(x) = x * 180 / pi
degrees(x) == Q(x.n * 180, x.d, x.k - 1)

\* (x * u.deg).to(u.radian): the number of radians in x degrees
deg_to_radian(x) == Q(x.n, x.d * 180, x.k + 1)

\* q.to(u.deg) for a quantity q held in radians: the number of degrees
radian_to_deg(x) == Q(x.n * 180, x.d, x.k - 1)

-----------------------------------------------------------------------------
(* IllumAngles *)

\* a keyword argument that was omitted takes the default 0
Default0(o) == IF IsNone(o) THEN Num(0) ELSE Get(o)

IllumAngles_init(phase, solar, emission) ==
    [phase    |-> deg_to_radian(Default0(phase)),
     solar    |-> deg_to_radian(Default0(solar)),
     emission |-> deg_to_radian(Default0(emission))]

IllumAngles_fromtuple(args) ==
    LET newargs == [i \in 1..3 |-> degrees(args[i])]
    IN  IllumAngles_init(Some(newargs[1]), Some(newargs[2]), Some(newargs[3]))

dphase(ia) == radian_to_deg(ia.phase)

dsolar(ia) == radian_to_deg(ia.solar)

demission(ia) == radian_to_deg(ia.emission)

-----------------------------------------------------------------------------
(* SurfaceCoords *)

SurfaceCoords_init(lon, lat, radius) ==
    [lon    |-> deg_to_radian(Default0(lon)),
     lat    |-> deg_to_radian(Default0(lat)),
     radius |-> Default0(radius)]

\* args = (radius, lon, lat)
SurfaceCoords_fromtuple(args) ==
    SurfaceCoords_init(Some(degrees(args[2])), Some(degrees(args[3])), Some(args[1]))

dlon(sc) == radian_to_deg(sc.lon)

dlat(sc) == radian_to_deg(sc.lat)

-----------------------------------------------------------------------------
(* Names: str.upper() and str.lower(), character by character *)

LowerChars == <<"a","b","c","d","e","f","g","h","i","j","k","l","m",
                "n","o","p","q","r","s","t","u","v","w","x","y","z">>

UpperChars == <<"A","B","C","D","E","F","G","H","I","J","K","L","M",
                "N","O","P","Q","R","S","T","U","V","W","X","Y","Z">>

UpperChar(c) ==
    IF \E i \in 1..26 : LowerChars[i] = c
    THEN UpperChars[CHOOSE i \in 1..26 : LowerChars[i] = c]
    ELSE c

LowerChar(c) ==
    IF \E i \in 1..26 : UpperChars[i] = c
    THEN LowerChars[CHOOSE i \in 1..26 : UpperChars[i] = c]
    ELSE c

upper(s) == [i \in 1..Len(s) |-> UpperChar(s[i])]

lower(s) == [i \in 1..Len(s) |-> LowerChar(s[i])]

IAU == <<"I","A","U","_">>

\* "IAU_" + str(value).upper()
default_ref_frame(value) == IAU \o upper(value)

mars == <<"m","a","r","s">>

Earth == <<"E","a","r","t","h">>

hello == <<"h","e","l","l","o">>

test == <<"t","e","s","t">>

MARS == <<"M","A","R","S">>

EARTH == <<"E","A","R","T","H">>

SUN == <<"S","U","N">>

TRITON == <<"T","R","I","T","O","N">>

ENCELADUS == <<"E","N","C","E","L","A","D","U","S">>

PLUTO == <<"P","L","U","T","O">>

-----------------------------------------------------------------------------
(* Results of calls: err is "ok" or the name of the exception raised *)

Ok(v) == [err |-> "ok", val |-> v]

Raise(e) == [err |-> e, val |-> <<>>]

IsOk(r) == r.err = "ok"

\* r, then F of its value: an exception raised by r propagates
Then(r, F(_)) == IF r.err = "ok" THEN F(r.val) ELSE r

-----------------------------------------------------------------------------
(* The SPICE toolkit with the generic kernels loaded, as far as the calls   *)
(* of spicer.py go.  Lengths are whole kilometres; surface points and the   *)
(* sun are taken on the coordinate axes, where the toolkit's trigonometry   *)
(* is exact.                                                                *)

\* the NAIF id of a body name in upper case
NaifId(u) ==
    IF u = MARS THEN Ok(499)
    ELSE IF u = EARTH THEN Ok(399)
    ELSE IF u = SUN THEN Ok(10)
    ELSE IF u = TRITON THEN Ok(801)
    ELSE IF u = ENCELADUS THEN Ok(602)
    ELSE IF u = PLUTO THEN Ok(999)
    ELSE Raise("SpiceError")

\* spice.bodn2c: the NAIF id of a body name, matched without regard to case
bodn2c(name) ==
    IF IsNone(name) THEN Raise("SpiceError") ELSE NaifId(upper(Get(name)))

\* the RADII of pck00010.tpc
BodyRadii(id) ==
    IF id = 499 THEN <<3396, 3396, 3376>>
    ELSE IF id = 399 THEN <<6378, 6378, 6357>>
    ELSE IF id = 10 THEN <<696000, 696000, 696000>>
    ELSE IF id = 801 THEN <<1353, 1353, 1353>>
    ELSE IF id = 602 THEN <<257, 251, 248>>
    ELSE <<1195, 1195, 1195>>

\* spice.bodvrd(name, "RADII", 3)
bodvrd_radii(name) == Then(bodn2c(name), LAMBDA id : Ok(BodyRadii(id)))

\* the quarter turn an angle (n/d)*pi stands for: 0, 1, 2, 3 for 0, 90, 180, 270 degrees
Quarter(x) == ((2 * x.n) \div x.d) % 4

CosQ(q) == IF q = 0 THEN 1 ELSE IF q = 2 THEN -1 ELSE 0

SinQ(q) == IF q = 1 THEN 1 ELSE IF q = 3 THEN -1 ELSE 0

\* the point of an ellipsoid with semi-axes r at quarter turns qlon, qlat
EllipsoidPoint(r, qlon, qlat) ==
    <<r[1] * CosQ(qlat) * CosQ(qlon), r[2] * CosQ(qlat) * SinQ(qlon), r[3] * SinQ(qlat)>>

\* spice.srfrec(id, lon, lat), lon and lat in radians
spice_srfrec(id, lon, lat) == EllipsoidPoint(BodyRadii(id), Quarter(lon), Quarter(lat))

\* the axis a vector points along most: its largest component kept as a sign
AxisOf(v) ==
    IF Abs(v[3]) >= Abs(v[1]) /\ Abs(v[3]) >= Abs(v[2])
    THEN <<0, 0, IF v[3] < 0 THEN -1 ELSE 1>>
    ELSE IF Abs(v[1]) >= Abs(v[2])
    THEN <<IF v[1] < 0 THEN -1 ELSE 1, 0, 0>>
    ELSE <<0, IF v[2] < 0 THEN -1 ELSE 1, 0>>

Dot(u, v) == u[1] * v[1] + u[2] * v[2] + u[3] * v[3]

\* (radius, lon in (-pi, pi], lat) of a point of length r on the axis a
LatOnAxis(r, a) ==
    IF a[3] # 0 THEN <<Num(r), Num(0), PiTimes(a[3], 2)>>
    ELSE IF a[1] = 1 THEN <<Num(r), Num(0), Num(0)>>
    ELSE IF a[1] = -1 THEN <<Num(r), PiTimes(1, 1), Num(0)>>
    ELSE <<Num(r), PiTimes(a[2], 2), Num(0)>>

\* spice.reclat(v) -> (radius, lon, lat), for a vector near an axis
spice_reclat(v) == LatOnAxis(Abs(Dot(v, AxisOf(v))), AxisOf(v))

\* spice.surfnm(a, b, c, point): the outward unit normal, for a point near an axis
spice_surfnm(abc, v) == AxisOf(v)

spice_vsub(u, v) == <<u[1] - v[1], u[2] - v[2], u[3] - v[3]>>

\* the angle in radians whose cosine is c, for c in {1, 0, -1}
ArcCos(c) == IF c = 1 THEN Num(0) ELSE IF c = 0 THEN PiTimes(1, 2) ELSE PiTimes(1, 1)

\* spice.vsep(u, v) in radians, to the nearest quarter turn
spice_vsep(u, v) == ArcCos(Dot(AxisOf(u), AxisOf(v)))

\* the reference frames the generic kernels define
KnownFrame(f) ==
    f \in {IAU \o MARS, IAU \o EARTH, IAU \o SUN, IAU \o TRITON,
           IAU \o ENCELADUS, IAU \o PLUTO}

\* the last instant the loaded planetary ephemeris covers
CoverageEnd == MaxTime - 1

\* spice.utc2et(self.utc), the instant t counted from the epoch of the model
et_at(t) == t

\* distance of a body to the sun in kilometres
SunDistance(id) ==
    IF id = 499 THEN 227900000
    ELSE IF id = 399 THEN 149600000
    ELSE IF id = 801 THEN 2000000000
    ELSE IF id = 602 THEN 1430000000
    ELSE IF id = 999 THEN 2000000000
    ELSE 0

\* the sun at distance d in the equator plane of the body-fixed frame, a
\* quarter turn further west each time unit
SunAt(d, q) == <<d * CosQ(q), -d * SinQ(q), 0>>

\* spice.spkpos("SUN", et, frame, corr, body)[0]
spkpos_sun(et, frame, name) ==
    Then(bodn2c(name), LAMBDA id :
        IF ~KnownFrame(frame) THEN Raise("SpiceError")
        ELSE IF et > CoverageEnd THEN Raise("SpiceError")
        ELSE Ok(SunAt(SunDistance(id), et % 4)))

\* np.rad2deg(spice.lspcn(target, et, corr)): a quarter of the year per time unit
lspcn_deg(name, et) ==
    Then(bodn2c(name), LAMBDA id :
        IF et > CoverageEnd THEN Raise("SpiceError")
        ELSE Ok(radian_to_deg(PiTimes(et % 4, 2))))

\* the spacecraft ephemerides are not among the generic kernels
ObserverLoaded(o) == o = "EARTH"

\* (phase, solar, emission) with the sun along s and the surface normal along n
IluminAngles(s, n) == <<spice_vsep(s, n), spice_vsep(s, n), Num(0)>>

\* spice.ilumin("Ellipsoid", target, et, frame, corr, obs, spoint)[2:]
spice_ilumin(name, et, frame, o, sp) ==
    Then(spkpos_sun(et, frame, name), LAMBDA s :
        IF ~ObserverLoaded(o) THEN Raise("SpiceError")
        ELSE Ok(IluminAngles(s, AxisOf(sp))))

-----------------------------------------------------------------------------
(* The classes *)

Kinds == {"Spicer", "MarsSpicer", "TritonSpicer", "EnceladusSpicer",
          "PlutoSpicer", "EarthSpicer"}

Subtypes == Kinds \ {"Spicer"}

\* the class attribute target
ClassTarget(k) ==
    IF k = "MarsSpicer" THEN Some(MARS)
    ELSE IF k = "TritonSpicer" THEN Some(TRITON)
    ELSE IF k = "EnceladusSpicer" THEN Some(ENCELADUS)
    ELSE IF k = "PlutoSpicer" THEN Some(PLUTO)
    ELSE IF k = "EarthSpicer" THEN Some(EARTH)
    ELSE None

Undefined == "<undefined>"

\* obs = Enum([...]) of each subclass
ObsEnum(k) ==
    IF k = "MarsSpicer" THEN {"None", "MRO", "MGS", "MEX"} ELSE {"None", "EARTH"}

\* instrument = Enum([...]), declared by MarsSpicer alone
InstrumentEnum == {"None", "MRO_HIRISE", "MRO_CRISM", "MRO_CTX"}

DeclaresInstrument(k) == k = "MarsSpicer"

\* the classes whose constructor takes tau: Spicer, and MarsSpicer through
\* **kwargs; the other subclasses leave it at the default 0.0
AcceptsTau(k) == k \in {"Spicer", "MarsSpicer"}

\* what assigning v to the trait obs of class k leaves in it
obs_validate(k, old, v) ==
    IF v \in ObsEnum(k) THEN [err |-> "ok", val |-> v]
    ELSE [err |-> "TraitError", val |-> old]

\* what assigning v to the attribute instrument of class k leaves in it
instrument_validate(k, old, v) ==
    IF DeclaresInstrument(k)
    THEN IF v \in InstrumentEnum THEN [err |-> "ok", val |-> v]
         ELSE [err |-> "TraitError", val |-> old]
    ELSE [err |-> "ok", val |-> v]

\* location_coords of MarsSpicer, in whole kilometres
inca == <<"i","n","c","a">>

location_coords(name) ==
    IF name = inca THEN Ok(<<220, -441, -3341>>) ELSE Raise("KeyError")

-----------------------------------------------------------------------------
(* The values the calls of the model are made with *)

\* the body a generic Spicer is constructed with, and the bodies assigned later
InitBodyNames == {mars, Earth}

BodyNames == {mars}

TargetNames == {mars, hello}

FrameNames == {test}

ObsValues == {"None", "MRO", "EARTH", "XYZ"}

\* the instruments assigned: one MarsSpicer lists, and one no class lists
InstrumentValues(k) ==
    IF k = "MarsSpicer" THEN {"None", "MRO_CTX", "XYZ"} ELSE {"None", "XYZ"}

FuncStrs == {None, Some("subpnt"), Some("sonic")}

\* longitudes and latitudes in degrees, None for an omitted keyword
LonValues == {None, Some(Num(0)), Some(Num(180))}

LatValues == {None, Some(Num(0))}

\* the calls of set_spoint_by: <<func_str, lon, lat>>
SetSpointCalls ==
    {<<None, lon, Some(Num(0))>> : lon \in LonValues}
    \cup {<<None, Some(Num(0)), None>>}
    \cup {<<f, None, None>> : f \in FuncStrs}
    \cup {<<f, Some(Num(0)), Some(Num(0))>> : f \in FuncStrs}

LocStrings == {inca, <<"I","n","c","a">>, <<"o","l","y","m","p","u","s">>}

SecsValues == {-1, 1}

\* the angles in degrees assigned to tilt and to aspect
TiltValues == {0}

AspectValues == {0}

\* the calls of srfrec: <<lon, lat, body>>, lon and lat in degrees, body None
\* when left to self.target_id
SrfrecCalls == {<<Num(180), Num(0), None>>, <<Num(0), Num(0), Some(hello)>>}

\* the optical depths handed to the constructor of class k: an atmosphere for
\* MarsSpicer, the default elsewhere
TauValues(k) == IF k = "MarsSpicer" THEN {0, 1} ELSE {0}

\* the vectors handed to _get_flux: towards the sun of instant 0, away from
\* it, and across
FluxVectors == {<<1, 0, 0>>, <<-1, 0, 0>>, <<0, 0, 1>>}

FluxNames == {"F_flat", "F_none"}

DtValues == {1, 2}

TimeChannels == {Some("et"), Some("l_s"), Some("foo")}

\* the calls of time_series: <<flux_name, dt, no_of_steps, provide_times>>
TimeSeriesCalls ==
    {<<"F_flat", 1, Some(n), None>> : n \in -1..MaxSteps}
    \cup {<<"F_flat", dt, Some(MaxSteps), None>> : dt \in DtValues}
    \cup {<<"F_flat", 1, Some(MaxSteps), pt>> : pt \in TimeChannels}
    \cup {<<"F_flat", 1, None, None>>, <<"F_none", 1, Some(1), None>>}

-----------------------------------------------------------------------------
(* Spicer: the derived quantities, as a function of the object's state with *)
(* self.time = t                                                            *)

target_id == bodn2c(target)

radii == bodvrd_radii(target)

\* body_to_object("SUN")[0]
center_to_sun(t) == spkpos_sun(et_at(t), ref_frame, Some(body))

\* solar irradiance in W/m^2 at the distance d from the sun, L_sun / (4 pi d^2)
IrradianceAt(d) ==
    IF d = 149600000 THEN 1361
    ELSE IF d = 227900000 THEN 586
    ELSE IF d = 1430000000 THEN 15
    ELSE IF d = 2000000000 THEN 8
    ELSE 0

\* spice.vnorm of a vector along an axis
vnorm(v) == Abs(v[1]) + Abs(v[2]) + Abs(v[3])

solar_constant(t) == Then(center_to_sun(t), LAMBDA c : Ok(IrradianceAt(vnorm(c))))

\* srfrec(surfcoord, body): bodyarg is None, or a name to resolve
srfrec(surfcoord, bodyarg) ==
    Then(IF IsNone(bodyarg) THEN target_id ELSE bodn2c(bodyarg),
         LAMBDA b : Ok(spice_srfrec(b, surfcoord.lon, surfcoord.lat)))

l_s(t) == lspcn_deg(target, et_at(t))

sun_direction(t) ==
    IF ~spoint_set THEN Raise("SPointNotSetError")
    ELSE Then(center_to_sun(t), LAMBDA c :
             IF IsNone(spoint) THEN Raise("AttributeError")
             ELSE Ok(spice_vsub(c, Get(spoint))))

snormal ==
    IF ~spoint_set THEN Raise("SPointNotSetError")
    ELSE Then(radii, LAMBDA r :
             IF IsNone(spoint) THEN Raise("AttributeError")
             ELSE Ok(spice_surfnm(r, Get(spoint))))

coords ==
    IF ~spoint_set THEN Raise("SPointNotSetError")
    ELSE IF IsNone(spoint) THEN Raise("AttributeError")
    ELSE Ok(SurfaceCoords_fromtuple(spice_reclat(Get(spoint))))

illum_angles(t) ==
    IF obs = Undefined THEN Raise("AttributeError")
    ELSE IF obs # "None"
    THEN IF IsNone(spoint) THEN Raise("AttributeError")
         ELSE Then(spice_ilumin(target, et_at(t), ref_frame, obs, Get(spoint)),
                   LAMBDA output : Ok(IllumAngles_fromtuple(output)))
    ELSE Then(sun_direction(t), LAMBDA sd :
         Then(snormal, LAMBDA sn :
              Ok(IllumAngles_fromtuple(<<Num(0), spice_vsep(sd, sn), Num(0)>>))))

\* x > m for an integer m
QGreaterInt(x, m) ==
    IF x.k >= 0
    THEN x.n * Pow(355, x.k) > m * x.d * Pow(113, x.k)
    ELSE x.n * Pow(113, -x.k) > m * x.d * Pow(355, -x.k)

\* np.exp(-tau / c) in thousandths, for tau in 0..1 and the cosine c of a
\* multiple of 90 degrees; np.cos of the float pi/2 is 6.1e-17, so at 90
\* degrees the quotient is -0.0 for tau = 0 and below -1e16 otherwise
Attenuation(ta, c) ==
    IF ta = 0 THEN 1000
    ELSE IF c = 1 THEN 368
    ELSE IF c = 0 THEN 0
    ELSE 2718

\* _get_flux with the test on diff_angle alone
flux_value_one_term(diff_angle, ia, t) ==
    IF QGreaterInt(degrees(diff_angle), 90)
    THEN Ok(0)
    ELSE Then(solar_constant(t), LAMBDA sc :
             Ok(sc * CosQ(Quarter(diff_angle)) * Attenuation(tau, CosQ(Quarter(ia.solar)))))

\* the branches of _get_flux once diff_angle and illum_angles are at hand; the
\* flux is in thousandths of W/m^2
flux_value(diff_angle, ia, t) ==
    IF QGreaterInt(dsolar(ia), 90) \/ QGreaterInt(degrees(diff_angle), 90)
    THEN Ok(0)
    ELSE Then(solar_constant(t), LAMBDA sc :
             Ok(sc * CosQ(Quarter(diff_angle)) * Attenuation(tau, CosQ(Quarter(ia.solar)))))

\* _get_flux(vector)
get_flux(vector, t) ==
    Then(sun_direction(t), LAMBDA sd :
    Then(illum_angles(t), LAMBDA ia :
         flux_value(spice_vsep(vector, sd), ia, t)))

F_flat(t) == Then(snormal, LAMBDA sn : get_flux(sn, t))

\* getattr(self, flux_name)
flux_attr(flux_name, t) ==
    IF flux_name = "F_flat" THEN F_flat(t) ELSE Raise("AttributeError")

\* getattr(self, provide_times)
time_attr(name, t) ==
    IF name = "time" THEN Ok(t)
    ELSE IF name = "et" THEN Ok(et_at(t))
    ELSE IF name = "l_s" THEN l_s(t)
    ELSE Raise("AttributeError")

-----------------------------------------------------------------------------
(* Spicer: the operations that change the object *)

\* a call that raises e and leaves spoint_set and spoint as they are
SpointKept(e) == [err |-> e, spoint_set |-> spoint_set, spoint |-> spoint]

\* the last two statements of set_spoint_by, reached unless an exception was raised
SpointCommit(r) ==
    IF ~IsOk(r) THEN SpointKept(r.err)
    ELSE [err |-> "ok", spoint_set |-> TRUE, spoint |-> Some(r.val)]

\* set_spoint_by without its "not yet implemented" branch: a supported method
\* name falls through to the lon/lat branches
set_spoint_by_no_elif(func_str, lon, lat) ==
    IF ~IsNone(func_str) /\ Get(func_str) \notin {"subpnt", "sincpt"}
    THEN SpointKept("NotImplementedError")
    ELSE IF IsNone(lat) \/ IsNone(lon)
    THEN SpointKept("MissingParameterError")
    ELSE SpointCommit(srfrec(SurfaceCoords_init(lon, lat, None), None))

\* set_spoint_by testing "not lat or not lon": a longitude or latitude of 0
\* is taken as missing
set_spoint_by_falsy(func_str, lon, lat) ==
    IF ~IsNone(func_str) /\ Get(func_str) \notin {"subpnt", "sincpt"}
    THEN SpointKept("NotImplementedError")
    ELSE IF ~IsNone(func_str)
    THEN SpointKept("NotImplementedError")
    ELSE IF IsNone(lat) \/ IsNone(lon) \/ lat = Some(Num(0)) \/ lon = Some(Num(0))
    THEN SpointKept("MissingParameterError")
    ELSE SpointCommit(srfrec(SurfaceCoords_init(lon, lat, None), None))

\* set_spoint_by(func_str, lon, lat): the exception raised, if any, and the
\* values of spoint_set and spoint when the call ends
set_spoint_by(func_str, lon, lat) ==
    IF ~IsNone(func_str) /\ Get(func_str) \notin {"subpnt", "sincpt"}
    THEN SpointKept("NotImplementedError")
    ELSE IF ~IsNone(func_str)
    THEN SpointKept("NotImplementedError")
    ELSE IF IsNone(lat) \/ IsNone(lon)
    THEN SpointKept("MissingParameterError")
    ELSE SpointCommit(srfrec(SurfaceCoords_init(lon, lat, None), None))

\* the two statements of goto: spoint_set is assigned before the table is read
GotoCommit(r) ==
    IF ~IsOk(r)
    THEN [err |-> r.err, spoint_set |-> TRUE, spoint |-> spoint]
    ELSE [err |-> "ok", spoint_set |-> TRUE, spoint |-> Some(r.val)]

\* MarsSpicer.goto(loc_string)
goto(loc_string) == GotoCommit(location_coords(lower(loc_string)))

\* an advance_time_by that leaves self.time where it is
advance_time_by_noop(t, secs) ==
    IF t + secs < 0 \/ t + secs > MaxTime THEN Raise("OverflowError")
    ELSE Ok(t)

\* self.time += dt.timedelta(seconds=secs), for self.time = t
advance_time_by(t, secs) ==
    IF t + secs < 0 \/ t + secs > MaxTime THEN Raise("OverflowError")
    ELSE Ok(t + secs)

\* bool(provide_times)
Truthy(provide_times) == ~IsNone(provide_times) /\ Get(provide_times) # ""

\* the state of the loop of time_series: self.time, times and energies
LoopState(t, times, energies) == [time |-> t, times |-> times, energies |-> energies]

\* the loop left by an exception of r, or carried on with F of r's value
OrRaise(r, st, F(_)) ==
    IF r.err = "ok" THEN F(r.val)
    ELSE [err |-> r.err, time |-> st.time, times |-> st.times, energies |-> st.energies]

\* the while loop of time_series from iteration i on, in loop state st: the
\* exception raised, if any, and self.time, times and energies at its end
RECURSIVE time_series_loop(_, _, _, _, _, _)
time_series_loop(flux_name, dt, no_of_steps, provide_times, i, st) ==
    IF ~(i < no_of_steps)
    THEN [err |-> "ok", time |-> st.time, times |-> st.times, energies |-> st.energies]
    ELSE
    OrRaise(IF Truthy(provide_times) THEN time_attr(Get(provide_times), st.time)
            ELSE Ok(<<>>),
            st, LAMBDA ch :
    OrRaise(flux_attr(flux_name, st.time), st, LAMBDA f :
    OrRaise(advance_time_by(st.time, dt), st, LAMBDA t1 :
        time_series_loop(flux_name, dt, no_of_steps, provide_times, i + 1,
            LoopState(t1,
                      IF Truthy(provide_times) THEN Append(st.times, ch) ELSE st.times,
                      Append(st.energies, f * dt))))))

\* time_series without "self.time = saved_time"
time_series_end_no_restore(r, saved_time, provide_times) ==
    IF r.err # "ok"
    THEN [err |-> r.err, time |-> r.time, ret |-> <<>>]
    ELSE [err |-> "ok", time |-> r.time,
          ret |-> IF Truthy(provide_times)
                  THEN [paired |-> TRUE, times |-> r.times, energies |-> r.energies]
                  ELSE [paired |-> FALSE, times |-> <<>>, energies |-> r.energies]]

\* the end of time_series after the loop ended as r: self.time is restored
\* and the series returned unless the loop raised; the value returned is the
\* pair (times, energies) when paired, and energies alone otherwise
time_series_end(r, saved_time, provide_times) ==
    IF r.err # "ok"
    THEN [err |-> r.err, time |-> r.time, ret |-> <<>>]
    ELSE [err |-> "ok", time |-> saved_time,
          ret |-> IF Truthy(provide_times)
                  THEN [paired |-> TRUE, times |-> r.times, energies |-> r.energies]
                  ELSE [paired |-> FALSE, times |-> <<>>, energies |-> r.energies]]

\* time_series(flux_name, dt, no_of_steps, provide_times): the exception raised,
\* if any, the value returned and self.time when the call ends
time_series(flux_name, dt, no_of_steps, provide_times) ==
    IF IsNone(no_of_steps)
    THEN [err |-> "TypeError", time |-> time, ret |-> <<>>]
    ELSE time_series_end(
             time_series_loop(flux_name, dt, Get(no_of_steps), provide_times, 0,
                              LoopState(time, <<>>, <<>>)),
             time, provide_times)

-----------------------------------------------------------------------------
(* The state machine of one Spicer object *)

NoVal == [cls |-> "none", via |-> "none", args |-> <<>>, obj |-> <<>>]

Call(op, args, err, ret) == [op |-> op, args |-> args, err |-> err, ret |-> ret]

\* Spicer.__init__(body, time) and the __init__ of the subclasses, with
\* arguments the constructor accepts
Init ==
    /\ kind \in Kinds
    /\ target = ClassTarget(kind)
    /\ IF kind = "Spicer"
       THEN /\ body \in InitBodyNames
            /\ obs = Undefined
            /\ instrument = Undefined
       ELSE /\ body = Get(ClassTarget(kind))
            /\ obs \in {v \in ObsValues : obs_validate(kind, "None", v).err = "ok"}
            /\ instrument \in {v \in InstrumentValues(kind) :
                                  instrument_validate(kind, "None", v).err = "ok"}
    /\ ref_frame = default_ref_frame(body)
    /\ time = 0
    /\ spoint_set = FALSE
    /\ spoint = None
    /\ tau \in (IF AcceptsTau(kind) THEN TauValues(kind) ELSE {0})
    /\ tilt = 0
    /\ aspect = 0
    /\ last = Call("__init__", <<>>, "ok", <<>>)
    /\ val = NoVal

\* a body.setter that leaves the reference frame alone
SetBody_keeps_frame(value) ==
    /\ body' = value
    /\ last' = Call("body", [value |-> value], "ok", <<>>)
    /\ UNCHANGED <<kind, tau, tilt, aspect, ref_frame, target, time, spoint_set, spoint, obs, instrument, val>>

\* body.setter
SetBody(value) ==
    /\ body' = value
    /\ ref_frame' = default_ref_frame(value)
    /\ last' = Call("body", [value |-> value], "ok", <<>>)
    /\ UNCHANGED <<kind, tau, tilt, aspect, target, time, spoint_set, spoint, obs, instrument, val>>

\* tilt.setter
SetTilt(value) ==
    /\ tilt' = value
    /\ last' = Call("tilt", [value |-> value], "ok", <<>>)
    /\ UNCHANGED <<kind, tau, aspect, body, ref_frame, target, time, spoint_set, spoint,
                   obs, instrument, val>>

\* aspect.setter
SetAspect(value) ==
    /\ aspect' = value
    /\ last' = Call("aspect", [value |-> value], "ok", <<>>)
    /\ UNCHANGED <<kind, tau, tilt, body, ref_frame, target, time, spoint_set, spoint,
                   obs, instrument, val>>

\* ref_frame.setter
SetRefFrame(value) ==
    /\ ref_frame' = value
    /\ last' = Call("ref_frame", [value |-> value], "ok", <<>>)
    /\ UNCHANGED <<kind, tau, tilt, aspect, body, target, time, spoint_set, spoint, obs, instrument, val>>

\* s.target = value on the generic Spicer, whose class leaves target at None
SetTarget(value) ==
    /\ kind = "Spicer"
    /\ target' = Some(value)
    /\ last' = Call("target", [value |-> value], "ok", <<>>)
    /\ UNCHANGED <<kind, tau, tilt, aspect, body, ref_frame, time, spoint_set, spoint, obs, instrument, val>>

\* self.obs = value on a subclass, r what the trait's validation gives
ObsAssigned(value, r) ==
    /\ obs' = r.val
    /\ last' = Call("obs", [value |-> value], r.err, <<>>)
    /\ UNCHANGED <<kind, tau, tilt, aspect, body, ref_frame, target, time, spoint_set, spoint,
                   instrument, val>>

SetObs(value) ==
    /\ kind \in Subtypes
    /\ ObsAssigned(value, obs_validate(kind, obs, value))

\* self.instrument = value on a subclass
InstrumentAssigned(value, r) ==
    /\ instrument' = r.val
    /\ last' = Call("instrument", [value |-> value], r.err, <<>>)
    /\ UNCHANGED <<kind, tau, tilt, aspect, body, ref_frame, target, time, spoint_set, spoint, obs, val>>

SetInstrument(value) ==
    /\ kind \in Subtypes
    /\ InstrumentAssigned(value, instrument_validate(kind, instrument, value))

\* a call of set_spoint_by or goto that ended as r
SpointCall(op, args, r) ==
    /\ spoint_set' = r.spoint_set
    /\ spoint' = r.spoint
    /\ last' = Call(op, args, r.err, <<>>)
    /\ UNCHANGED <<kind, tau, tilt, aspect, body, ref_frame, target, time, obs, instrument, val>>

SetSpointBy(func_str, lon, lat) ==
    SpointCall("set_spoint_by", [func_str |-> func_str, lon |-> lon, lat |-> lat],
               set_spoint_by(func_str, lon, lat))

Goto(loc_string) ==
    /\ kind = "MarsSpicer"
    /\ SpointCall("goto", [loc_string |-> loc_string], goto(loc_string))

\* reading a property: nothing of the object changes
Read(op, r) ==
    /\ last' = Call(op, <<>>, r.err, r.val)
    /\ UNCHANGED <<kind, tau, tilt, aspect, body, ref_frame, target, time, spoint_set, spoint, obs,
                   instrument, val>>

ReadSunDirection == Read("sun_direction", sun_direction(time))

ReadSnormal == Read("snormal", snormal)

ReadIllumAngles == Read("illum_angles", illum_angles(time))

ReadCoords == Read("coords", coords)

ReadFFlat == Read("F_flat", F_flat(time))

\* a call of a method that changes nothing of the object
Query(op, args, r) ==
    /\ last' = Call(op, args, r.err, r.val)
    /\ UNCHANGED <<kind, tau, tilt, aspect, body, ref_frame, target, time, spoint_set,
                   spoint, obs, instrument, val>>

\* a srfrec that keeps the point it computed as the surface point
Srfrec_commits(lon, lat, bodyarg) ==
    /\ last' = Call("srfrec", [lon |-> lon, lat |-> lat, body |-> bodyarg],
                    srfrec(SurfaceCoords_init(Some(lon), Some(lat), None), bodyarg).err,
                    srfrec(SurfaceCoords_init(Some(lon), Some(lat), None), bodyarg).val)
    /\ spoint' = Some(srfrec(SurfaceCoords_init(Some(lon), Some(lat), None), bodyarg).val)
    /\ spoint_set' = TRUE
    /\ UNCHANGED <<kind, tau, tilt, aspect, body, ref_frame, target, time, obs,
                   instrument, val>>

\* self.srfrec(SurfaceCoords(lon=lon, lat=lat), body)
Srfrec(lon, lat, bodyarg) ==
    Query("srfrec", [lon |-> lon, lat |-> lat, body |-> bodyarg],
          srfrec(SurfaceCoords_init(Some(lon), Some(lat), None), bodyarg))

\* self._get_flux(vector)
GetFlux(vector) == Query("_get_flux", [vector |-> vector], get_flux(vector, time))

\* a call of advance_time_by or time_series that ended as r
TimeCall(op, args, r) ==
    /\ time' = r.time
    /\ last' = Call(op, args, r.err, r.ret)
    /\ UNCHANGED <<kind, tau, tilt, aspect, body, ref_frame, target, spoint_set, spoint, obs, instrument, val>>

\* self.time after advance_time_by ended as r
Advanced(r) ==
    [err |-> r.err, time |-> IF r.err = "ok" THEN r.val ELSE time, ret |-> <<>>]

AdvanceTimeBy(secs) ==
    TimeCall("advance_time_by", [secs |-> secs, saved_time |-> time],
             Advanced(advance_time_by(time, secs)))

TimeSeries(flux_name, dt, no_of_steps, provide_times) ==
    TimeCall("time_series",
             [flux_name |-> flux_name, dt |-> dt, no_of_steps |-> no_of_steps,
              provide_times |-> provide_times, saved_time |-> time],
             time_series(flux_name, dt, no_of_steps, provide_times))

Next ==
    \/ \E v \in BodyNames : SetBody(v)
    \/ \E v \in FrameNames : SetRefFrame(v)
    \/ \E v \in TiltValues : SetTilt(v)
    \/ \E v \in AspectValues : SetAspect(v)
    \/ \E c \in SrfrecCalls : Srfrec(c[1], c[2], c[3])
    \/ \E v \in TargetNames : SetTarget(v)
    \/ \E v \in ObsValues : SetObs(v)
    \/ \E v \in InstrumentValues(kind) : SetInstrument(v)
    \/ \E c \in SetSpointCalls : SetSpointBy(c[1], c[2], c[3])
    \/ \E loc \in LocStrings : Goto(loc)
    \/ ReadSunDirection
    \/ ReadSnormal
    \/ ReadIllumAngles
    \/ ReadCoords
    \/ ReadFFlat
    \/ \E v \in FluxVectors : GetFlux(v)
    \/ \E secs \in SecsValues : AdvanceTimeBy(secs)
    \/ \E c \in TimeSeriesCalls : TimeSeries(c[1], c[2], c[3], c[4])

Spec == Init /\ [][Next]_vars

-----------------------------------------------------------------------------
(* The value types on their own: IllumAngles and SurfaceCoords objects      *)
(* built by the constructor and by fromtuple from bounded sets of angles    *)

\* angles handed in: 0, pi, 2 pi, 3 pi, -pi/2 and the plain number -90
Angles == {Num(0), PiTimes(1, 1), PiTimes(2, 1), PiTimes(3, 1), PiTimes(-1, 2), Num(-90)}

\* a keyword argument: omitted, or an angle
AngleArgs == {None} \cup {Some(a) : a \in Angles}

RadiusArgs == {None, Some(Num(3396))}

Built(cls, via, args, obj) == [cls |-> cls, via |-> via, args |-> args, obj |-> obj]

\* one generic Spicer("mars"), left alone while value objects are built
InitValues ==
    /\ kind = "Spicer"
    /\ target = None
    /\ body = mars
    /\ obs = Undefined
    /\ instrument = Undefined
    /\ ref_frame = default_ref_frame(body)
    /\ time = 0
    /\ spoint_set = FALSE
    /\ spoint = None
    /\ tau = 0
    /\ tilt = 0
    /\ aspect = 0
    /\ last = Call("__init__", <<>>, "ok", <<>>)
    /\ val = NoVal

\* IllumAngles(phase=..., solar=..., emission=...)
NewIllumAngles(phase, solar, emission) ==
    /\ val' = Built("IllumAngles", "__init__", <<phase, solar, emission>>,
                    IllumAngles_init(phase, solar, emission))
    /\ UNCHANGED spicerVars

\* IllumAngles.fromtuple(args)
IllumAnglesFromTuple(args) ==
    /\ val' = Built("IllumAngles", "fromtuple", args, IllumAngles_fromtuple(args))
    /\ UNCHANGED spicerVars

\* SurfaceCoords(lon=..., lat=..., radius=...)
NewSurfaceCoords(lon, lat, radius) ==
    /\ val' = Built("SurfaceCoords", "__init__", <<lon, lat, radius>>,
                    SurfaceCoords_init(lon, lat, radius))
    /\ UNCHANGED spicerVars

\* SurfaceCoords.fromtuple((radius, lon, lat))
SurfaceCoordsFromTuple(args) ==
    /\ val' = Built("SurfaceCoords", "fromtuple", args, SurfaceCoords_fromtuple(args))
    /\ UNCHANGED spicerVars

NextValues ==
    \/ \E p \in AngleArgs, so \in AngleArgs, e \in AngleArgs : NewIllumAngles(p, so, e)
    \/ \E a \in Angles, b \in Angles, c \in Angles : IllumAnglesFromTuple(<<a, b, c>>)
    \/ \E lon \in AngleArgs, lat \in AngleArgs, r \in RadiusArgs :
          NewSurfaceCoords(lon, lat, r)
    \/ \E r \in {Num(0), Num(3396)}, lon \in Angles, lat \in Angles :
          SurfaceCoordsFromTuple(<<r, lon, lat>>)

SpecValues == InitValues /\ [][NextValues]_vars

-----------------------------------------------------------------------------
(* The claims *)

SpointAccessors == {"sun_direction", "snormal", "illum_angles", "coords"}

\* C1: while spoint_set is false, reading sun_direction, snormal, illum_angles
\* or coords fails with SPointNotSetError, whatever the observer is (set, unset,
\* or not defined as on the generic Spicer), and with no other error or value.
C1_AccessorsRaiseSPointNotSet ==
    (last.op \in SpointAccessors /\ ~spoint_set) => last.err = "SPointNotSetError"

\* C2: spoint and spoint_set are committed together: after any sequence of
\* set_spoint_by and goto calls, failed ones included, spoint_set is true only
\* if spoint holds a vector, and spoint holds a vector only if spoint_set is true.
C2_SpointCommittedTogether == spoint_set <=> ~IsNone(spoint)

\* C3: set_spoint_by with any non-null func_str ('subpnt', 'sincpt' or any other
\* name) fails with NotImplementedError for every lon and lat, given or omitted,
\* and leaves spoint and spoint_set as they were before the call.
C3_FuncStrNotImplemented ==
    [][(last'.op = "set_spoint_by" /\ ~IsNone(last'.args.func_str))
         => /\ last'.err = "NotImplementedError"
            /\ spoint' = spoint
            /\ spoint_set' = spoint_set]_vars

\* a set_spoint_by('subpnt', lon=.., lat=..) with both coordinates given was
\* refused on an object whose surface point had been set before
C3_Witness ==
    /\ last.op = "set_spoint_by"
    /\ last.args.func_str = Some("subpnt")
    /\ ~IsNone(last.args.lon) /\ ~IsNone(last.args.lat)
    /\ last.err = "NotImplementedError"
    /\ spoint_set /\ ~IsNone(spoint)

\* C4, as the claim has it: with func_str unset, set_spoint_by fails with
\* MissingParameterError exactly when lon or lat is omitted (0 counts as given),
\* and when both are given the call commits spoint and sets spoint_set.
C4_BothGivenCommits ==
    (last.op = "set_spoint_by" /\ IsNone(last.args.func_str))
      => /\ (last.err = "MissingParameterError")
               <=> (IsNone(last.args.lon) \/ IsNone(last.args.lat))
         /\ (~IsNone(last.args.lon) /\ ~IsNone(last.args.lat))
               => (last.err = "ok" /\ spoint_set /\ ~IsNone(spoint))

\* C4, amended: with func_str unset, set_spoint_by fails with
\* MissingParameterError exactly when lon or lat is omitted, leaving spoint and
\* spoint_set unchanged; 0 counts as given; when both are given and the current
\* target resolves to a body, the call commits spoint = srfrec(lon, lat) for
\* that body and sets spoint_set; when the target does not resolve, the
\* toolkit's error is raised and spoint and spoint_set are unchanged.
C4_LonLatContract ==
    [][(last'.op = "set_spoint_by" /\ IsNone(last'.args.func_str))
         => LET lon == last'.args.lon
                lat == last'.args.lat
            IN  /\ (last'.err = "MissingParameterError") <=> (IsNone(lon) \/ IsNone(lat))
                /\ last'.err # "ok" => (spoint' = spoint /\ spoint_set' = spoint_set)
                /\ (~IsNone(lon) /\ ~IsNone(lat) /\ IsOk(bodn2c(target)))
                      => /\ last'.err = "ok"
                         /\ spoint_set'
                         /\ spoint' = Some(spice_srfrec(bodn2c(target).val,
                                                        deg_to_radian(Get(lon)),
                                                        deg_to_radian(Get(lat))))
                /\ (~IsNone(lon) /\ ~IsNone(lat) /\ ~IsOk(bodn2c(target)))
                      => last'.err = bodn2c(target).err]_vars

\* set_spoint_by(lon=0, lat=0) committed the point (3396, 0, 0) of Mars
C4_Witness ==
    /\ last.op = "set_spoint_by"
    /\ IsNone(last.args.func_str)
    /\ last.args.lon = Some(Num(0)) /\ last.args.lat = Some(Num(0))
    /\ last.err = "ok"
    /\ spoint_set
    /\ spoint = Some(<<3396, 0, 0>>)

\* C5: when time_series returns normally, for every dt, flux selector, time
\* channel and step count >= 0 (0 included), the object's time equals the time
\* it had when the call started.
C5_TimeRestoredOnReturn ==
    (last.op = "time_series" /\ last.err = "ok") => time = last.args.saved_time

\* a time_series of MaxSteps steps returned: time had been advanced MaxSteps times
C5_Witness ==
    /\ last.op = "time_series"
    /\ last.err = "ok"
    /\ last.args.no_of_steps = Some(MaxSteps)
    /\ Len(last.ret.energies) = MaxSteps
    /\ time = last.args.saved_time

\* C6: when time_series fails because the flux or the time channel raises at
\* some step, also at a step after time was advanced, the object's time after
\* the failed call equals its value before the call.
C6_TimeRestoredOnFailure ==
    (last.op = "time_series" /\ last.err # "ok") => time = last.args.saved_time

\* every variable of the object but ref_frame is left as it is
OnlyRefFrameChanges ==
    UNCHANGED <<kind, tau, tilt, aspect, body, target, time, spoint_set, spoint, obs, instrument>>

\* C7: after construction with body b and after every assignment of the body to
\* v, ref_frame is "IAU_" + uppercase of that body, whatever override was in
\* place; assigning ref_frame changes ref_frame alone, and the override stays
\* until the next body assignment.
C7_RefFrameFollowsBody ==
    [][/\ last.op = "__init__" => ref_frame = IAU \o upper(body)
       /\ last'.op = "body"
             => (body' = last'.args.value /\ ref_frame' = IAU \o upper(last'.args.value))
       /\ last'.op = "ref_frame"
             => (ref_frame' = last'.args.value /\ OnlyRefFrameChanges)
       /\ last'.op \notin {"body", "ref_frame"} => ref_frame' = ref_frame]_vars

\* the body of an object constructed for another body was assigned "mars" and
\* the frame is IAU_MARS
C7_Witness ==
    /\ last.op = "body"
    /\ last.args.value = mars
    /\ kind \in {"Spicer", "EarthSpicer"}
    /\ ref_frame = <<"I","A","U","_","M","A","R","S">>

\* C8: dlon of a SurfaceCoords is always in [0, 360): a negative degree
\* conversion is returned plus 360, a conversion in [0, 360) as it is.
C8_DlonNormalised ==
    val.cls = "SurfaceCoords"
      => /\ ~QLessInt(dlon(val.obj), 0)
         /\ QLessInt(dlon(val.obj), 360)

\* C9: angles are taken as radians on both construction paths: an IllumAngles or
\* SurfaceCoords built by the constructor with an angle theta, or by fromtuple
\* from a tuple holding theta, reports the degree accessor theta * 180 / pi, and
\* radius defaults to 0.
C9_RadiansOnBothPaths ==
    /\ (val.cls = "IllumAngles" /\ val.via = "__init__")
          => /\ dphase(val.obj) = degrees(Default0(val.args[1]))
             /\ dsolar(val.obj) = degrees(Default0(val.args[2]))
             /\ demission(val.obj) = degrees(Default0(val.args[3]))
    /\ (val.cls = "IllumAngles" /\ val.via = "fromtuple")
          => /\ dphase(val.obj) = degrees(val.args[1])
             /\ dsolar(val.obj) = degrees(val.args[2])
             /\ demission(val.obj) = degrees(val.args[3])
    /\ (val.cls = "SurfaceCoords" /\ val.via = "__init__")
          => /\ dlon(val.obj) = degrees(Default0(val.args[1]))
             /\ dlat(val.obj) = degrees(Default0(val.args[2]))
             /\ IsNone(val.args[3]) => val.obj.radius = Num(0)
    /\ (val.cls = "SurfaceCoords" /\ val.via = "fromtuple")
          => /\ dlon(val.obj) = degrees(val.args[2])
             /\ dlat(val.obj) = degrees(val.args[3])

\* the instruments a subclass allows: those its Enum lists, and none but "unset"
\* for a body whose class lists no instrument
AllowedInstruments(k) == IF DeclaresInstrument(k) THEN InstrumentEnum ELSE {"None"}

\* C10: on every body-specific subclass, in every reachable state, the observer
\* and the instrument are each unset or a member of the set the body allows, an
\* assignment outside the set being rejected with the previous value kept, and
\* target stays the constant of the subclass.
C10_EnumeratedObserverInstrument ==
    kind \in Subtypes
      => /\ obs \in ObsEnum(kind)
         /\ instrument \in AllowedInstruments(kind)
         /\ target = ClassTarget(kind)

\* max(0, n)
Max0(n) == IF n < 0 THEN 0 ELSE n

\* entry i (from 0) of energies is the flux read with self.time = t0 + i*dt,
\* times dt
EnergyIs(e, flux_name, t0, dt, i) ==
    /\ IsOk(flux_attr(flux_name, t0 + i * dt))
    /\ e = flux_attr(flux_name, t0 + i * dt).val * dt

\* entry i (from 0) of times is the channel read with self.time = t0 + i*dt
TimeIs(x, channel, t0, dt, i) ==
    /\ IsOk(time_attr(channel, t0 + i * dt))
    /\ x = time_attr(channel, t0 + i * dt).val

\* the value time_series(a) returned is the series of n samples from a.saved_time on
SeriesOf(a, ret, n) ==
    /\ Len(ret.energies) = n
    /\ \A i \in 0..(n - 1) : EnergyIs(ret.energies[i + 1], a.flux_name, a.saved_time, a.dt, i)
    /\ IF Truthy(a.provide_times)
       THEN /\ ret.paired
            /\ Len(ret.times) = n
            /\ \A i \in 0..(n - 1) :
                  TimeIs(ret.times[i + 1], Get(a.provide_times), a.saved_time, a.dt, i)
       ELSE ~ret.paired

\* self.time when the loop of time_series(a) ends, before it is restored
LoopEndTime(a) ==
    time_series_loop(a.flux_name, a.dt, Get(a.no_of_steps), a.provide_times, 0,
                     LoopState(a.saved_time, <<>>, <<>>)).time

SunVisible(diff_angle, ia) ==
    /\ ~QGreaterInt(dsolar(ia), 90)
    /\ ~QGreaterInt(degrees(diff_angle), 90)

\* flux, in thousandths of W/m^2, is what the claim gives for the solar
\* constant sc, the angle diff_angle and the illumination angles ia
FluxIs(flux, sc, diff_angle, ia) ==
    /\ ~SunVisible(diff_angle, ia) => flux = 0
    /\ SunVisible(diff_angle, ia)
          => flux = sc * CosQ(Quarter(diff_angle)) * Attenuation(tau, CosQ(Quarter(ia.solar)))
    /\ tau >= 0 => (0 <= flux /\ flux <= 1000 * sc)

\* the flux returned for vector is the one of the claim
FluxOf(flux, vector) ==
    /\ IsOk(solar_constant(time))
    /\ IsOk(sun_direction(time))
    /\ IsOk(illum_angles(time))
    /\ FluxIs(flux, solar_constant(time).val,
              spice_vsep(vector, sun_direction(time).val), illum_angles(time).val)

\* C12: the flux _get_flux returns for a candidate normal is 0 when the angle
\* between the normal and sun_direction, or the solar incidence angle of
\* illum_angles, exceeds 90 degrees, and otherwise solar_constant *
\* cos(diff_angle) * exp(-tau / cos(solar)); with tau >= 0 it is never
\* negative and never above solar_constant, angles of exactly 90 degrees
\* included.
C12_TwoTermVisibility ==
    /\ (last.op = "_get_flux" /\ last.err = "ok") => FluxOf(last.ret, last.args.vector)
    /\ (last.op = "F_flat" /\ last.err = "ok")
          => (IsOk(snormal) /\ FluxOf(last.ret, snormal.val))

\* _get_flux returned 0 for a vector pointing at the sun from a point with the
\* sun at more than 90 degrees from the surface normal
C12_Witness ==
    /\ last.op = "_get_flux"
    /\ last.err = "ok"
    /\ last.ret = 0
    /\ spice_vsep(last.args.vector, sun_direction(time).val) = Num(0)
    /\ QGreaterInt(dsolar(illum_angles(time).val), 90)

\* the operations that set the surface point
SpointSetters == {"set_spoint_by", "goto"}

\* C13: only set_spoint_by and goto change the surface point: srfrec, the body
\* and ref_frame setters, the tilt and aspect setters, advance_time_by,
\* time_series and every other operation leave spoint and spoint_set as they
\* are, and no operation takes spoint_set from true back to false, so that
\* after the body or the target is changed spoint_set is still true and spoint
\* is still the vector computed for the body before.
C13_OnlySettersChangeSpoint ==
    [][/\ (last'.op \notin SpointSetters)
             => (spoint' = spoint /\ spoint_set' = spoint_set)
       /\ spoint_set => spoint_set']_vars

\* the target of a generic Spicer was changed from mars to a name the toolkit
\* does not know, and the surface point is still the point (3396, 0, 0) of Mars
C13_Witness ==
    /\ last.op = "target"
    /\ last.args.value = hello
    /\ target = Some(hello)
    /\ spoint_set
    /\ spoint = Some(<<3396, 0, 0>>)

\* C14: in every reachable state, from construction on and after any body
\* assignments, the body that is the origin of the position vectors (body, read
\* by body_to_object, center_to_sun and solar_constant) is the body that
\* target_id, radii, srfrec, l_s and illum_angles use (target), so that
\* sun_direction never takes the sun vector of one body and the surface point
\* of another.
C14_BodyIsTarget ==
    /\ ~IsNone(target)
    /\ upper(body) = upper(Get(target))

====
